---- MODULE Spec2Model ----
(***************************************************************************)
(* A model of easybind's Bind (src/bind.go): the reflection walk over the  *)
(* destination record, one wrapper goroutine and one bindField goroutine   *)
(* per field, the shared named result err, the cancellation context, the   *)
(* form-parse once-guard and the JSON body overlay.                        *)
(*                                                                         *)
(* A Bind invocation is identified by a call id: <<k>> is the k-th         *)
(* top-level call on the request, Append(c, i) the recursive call that     *)
(* the bindField goroutine of field i of call c makes for an anonymous     *)
(* embedded field.                                                         *)
(***************************************************************************)
EXTENDS Integers, Sequences, FiniteSets, TLC

\* Bounds of the model.
MaxCalls == 2        \* top-level Bind calls made one after another on one request
MaxPtrDepth == 2     \* pointer layers of the destination argument

\* src/bind.go:18-25
inTagPath == "path"
inTagQuery == "query"
inTagBody == "body"
inTagForm == "form"
inTagHeader == "header"

\* Go's nil error.
Nil == "nil"
ErrNonPointer == "can't bind to nonpointer value"
ErrNonStruct == "can't bind to nonstruct value"
\* Errors of the JSON decoder (json.NewDecoder(req.Body).Decode).
ErrEOF == "EOF"
ErrSyntax == "invalid character"
ErrUnmarshal == "cannot unmarshal"

(***************************************************************************)
(* The type catalogue.  A struct field is described by what reflection     *)
(* shows of it: its name, whether it is anonymous (embedded), whether it   *)
(* is exported (settable), its json tag, its pos tag and its type.  A pos  *)
(* tag is kept as the result of splitting it at "," and each part at ":",  *)
(* the empty sequence standing for an absent (or empty) tag.               *)
(***************************************************************************)
Fld(name, anon, exported, jsonTag, pos, type) ==
    [name |-> name, anon |-> anon, exported |-> exported, json |-> jsonTag,
     pos |-> pos, type |-> type]

NoTag == << >>
Tag1(loc, name) == << <<loc, name>> >>
TagReq(loc, name) == << <<loc, name>>, <<"required">> >>

\* type Example struct {            (the doc comment of Bind, bind.go:37-40)
\*     ID   string `json:"id"   pos:"path:id"`
\*     Name string `json:"name" pos:"query:name,required"` }
ExampleFields ==
    << Fld("ID", FALSE, TRUE, "id", Tag1("path", "id"), "string"),
       Fld("Name", FALSE, TRUE, "name", TagReq("query", "name"), "string") >>

\* type Flag int
\* type Broken struct {
\*     Flag                                        // embedded non-struct
\*     Name string `json:"name" pos:"query:name"` }
BrokenFields ==
    << Fld("Flag", TRUE, TRUE, "", NoTag, "Flag"),
       Fld("Name", FALSE, TRUE, "name", Tag1("query", "name"), "string") >>

\* type Inner struct { F string `json:"f" pos:"form:f"` }
InnerFields ==
    << Fld("F", FALSE, TRUE, "f", Tag1("form", "f"), "string") >>

\* type Outer struct {
\*     Inner
\*     G string `pos:"form:g"` }
OuterFields ==
    << Fld("Inner", TRUE, TRUE, "", NoTag, "Inner"),
       Fld("G", FALSE, TRUE, "", Tag1("form", "g"), "string") >>

\* type Flat struct {               (Outer with Inner's fields declared inline)
\*     F string `json:"f" pos:"form:f"`
\*     G string `pos:"form:g"` }
FlatFields ==
    << Fld("F", FALSE, TRUE, "f", Tag1("form", "f"), "string"),
       Fld("G", FALSE, TRUE, "", Tag1("form", "g"), "string") >>

\* type Login struct {
\*     User string `pos:"form:f"`
\*     Pass string `pos:"form:g"` }
LoginFields ==
    << Fld("User", FALSE, TRUE, "", Tag1("form", "f"), "string"),
       Fld("Pass", FALSE, TRUE, "", Tag1("form", "g"), "string") >>

\* type Misc struct {
\*     Tags []string `pos:"header:Accept"`
\*     Age  int      `pos:"query:age"`
\*     Bad  string   `pos:"malformed"` }
MiscFields ==
    << Fld("Tags", FALSE, TRUE, "", Tag1("header", "Accept"), "[]string"),
       Fld("Age", FALSE, TRUE, "", Tag1("query", "age"), "int"),
       Fld("Bad", FALSE, TRUE, "", << <<"malformed">> >>, "string") >>

\* type Odd struct {
\*     Xs   []string `pos:"query:x"`
\*     Bad2 string   `pos:"query:name:x"` }
OddFields ==
    << Fld("Xs", FALSE, TRUE, "", Tag1("query", "x"), "[]string"),
       Fld("Bad2", FALSE, TRUE, "", << <<"query", "name", "x">> >>, "string") >>

StructFields ==
    [Example |-> ExampleFields, Broken |-> BrokenFields, Inner |-> InnerFields,
     Outer |-> OuterFields, Flat |-> FlatFields, Login |-> LoginFields,
     Misc |-> MiscFields, Odd |-> OddFields]

StructTypes == DOMAIN StructFields

\* reflect.Type.Kind()
KindOf(t) ==
    IF t \in StructTypes THEN "struct"
    ELSE IF t = "Flag" THEN "int"
    ELSE t

Fields(t) == IF t \in StructTypes THEN StructFields[t] ELSE << >>

\* reflect.Value.NumField()
NumField(t) == Len(Fields(t))

(***************************************************************************)
(* Values.  A Go value is a record tagged with its type, so that values    *)
(* of different types are never equal.                                     *)
(***************************************************************************)
StrV(s) == [t |-> "string", s |-> s]
IntV(n) == [t |-> "int", n |-> n]
StrsV(q) == [t |-> "[]string", q |-> q]
FlagV(n) == [t |-> "Flag", n |-> n]
StructV(t, fs) == [t |-> t, f |-> fs]
\* The result of a failed coercion: of no type convertible to a field's type.
NoValue == [t |-> "invalid"]

\* reflect.Zero / reflect.New(t).Elem()
RECURSIVE Zero(_)
Zero(t) ==
    CASE t = "string" -> StrV("")
      [] t = "int" -> IntV(0)
      [] t = "[]string" -> StrsV(<< >>)
      [] t = "Flag" -> FlagV(0)
      [] OTHER -> StructV(t, [i \in 1..NumField(t) |-> Zero(Fields(t)[i].type)])

(***************************************************************************)
(* Requests.  The part of *http.Request that Bind reads: the advertised    *)
(* content length, the URL query, the headers, and the body, which is a    *)
(* stream: ctype says what the body holds, form and json what a parse of   *)
(* it yields.                                                              *)
(***************************************************************************)
Lookup(m, k) == IF k \in DOMAIN m THEN m[k] ELSE << >>

NoMap == << >>

\* GET /users/42?name=alice&age=x7
ReqPlain ==
    [contentLength |-> 0, ctype |-> "none",
     query |-> ("name" :> <<"alice">>) @@ ("age" :> <<"x7">>),
     header |-> NoMap, form |-> NoMap, json |-> NoMap]

\* POST /users/42?name=alice   {"id":"9","name":"bob","f":"jf"}
ReqJSON ==
    [contentLength |-> 34, ctype |-> "json",
     query |-> ("name" :> <<"alice">>),
     header |-> NoMap, form |-> NoMap,
     json |-> ("id" :> StrV("9")) @@ ("name" :> StrV("bob")) @@ ("f" :> StrV("jf"))]

\* POST /users/42   f=x&g=y   (application/x-www-form-urlencoded)
ReqForm ==
    [contentLength |-> 7, ctype |-> "form",
     query |-> NoMap, header |-> NoMap,
     form |-> ("f" :> <<"x">>) @@ ("g" :> <<"y">>), json |-> NoMap]

\* GET /users/42?age=7&x=a&x=b   Accept: text/plain   Accept: application/json
ReqMulti ==
    [contentLength |-> 0, ctype |-> "none",
     query |-> ("age" :> <<"7">>) @@ ("x" :> <<"a", "b">>),
     header |-> ("Accept" :> <<"text/plain", "application/json">>),
     form |-> NoMap, json |-> NoMap]

\* POST /users/42   f=x&g=%zz   (application/x-www-form-urlencoded): the
\* escape %zz is invalid; url.ParseQuery keeps the pairs it could parse (form)
\* and reports the first error.
ReqBadForm ==
    [contentLength |-> 9, ctype |-> "badform",
     query |-> NoMap, header |-> NoMap,
     form |-> ("f" :> <<"x">>), json |-> NoMap]

Requests == {ReqPlain, ReqJSON, ReqForm, ReqMulti, ReqBadForm}

\* The body is of the form content type, well-formed or not.
IsFormBody(in) == in.ctype \in {"form", "badform"}

\* The path accessors a caller may pass: none, a gin context (Param), an
\* httprouter.Params (ByName), or a value with neither method.  Both routers
\* matched /users/:id against /users/42.
PathQueryiers == {"none", "gin", "httprouter", "other"}
RouteParam(name) == IF name = "id" THEN "42" ELSE ""

(***************************************************************************)
(* Pure helpers of bind.go.                                                *)
(***************************************************************************)
\* getInTagLocAndName taking the first two tokens of a directive that has
\* two or more (len(locs) < 2 for len(locs) != 2).
getInTagLocAndNameLoose(fieldType) ==
    IF Len(fieldType.pos) = 0
    THEN <<inTagBody, fieldType.name>>
    ELSE LET locs == fieldType.pos[1]
         IN  IF Len(locs) < 2 THEN <<"", "">> ELSE <<locs[1], locs[2]>>

\* getInTagLocAndName: <<loc, name>> of a field.
getInTagLocAndName(fieldType) ==
    IF Len(fieldType.pos) = 0
    THEN <<inTagBody, fieldType.name>>
    ELSE LET locs == fieldType.pos[1]
         IN  IF Len(locs) # 2 THEN <<"", "">> ELSE <<locs[1], locs[2]>>

\* getValueFromPath without the len(pathQueryier) == 0 test.
getValueFromPathNoLenTest(name, pq) ==
    CASE pq = "other" -> ""
      [] OTHER -> RouteParam(name)

getValueFromPath(name, pq) ==
    CASE pq = "none" -> ""
      [] pq = "gin" -> RouteParam(name)
      [] pq = "httprouter" -> RouteParam(name)
      [] OTHER -> ""

\* strconv.ParseInt(s, 10, 64) on the strings of the requests.
ParseInt(s) ==
    CASE s = "7" -> [ok |-> TRUE, n |-> 7]
      [] s = "42" -> [ok |-> TRUE, n |-> 42]
      [] s = "9" -> [ok |-> TRUE, n |-> 9]
      [] OTHER -> [ok |-> FALSE, n |-> 0]

\* BindValue(val, typ): one string coerced to a scalar of the target type.
BindValue(val, typ) ==
    CASE KindOf(typ) = "string" -> StrV(val)
      [] KindOf(typ) = "int" ->
            IF ParseInt(val).ok
            THEN (IF typ = "int" THEN IntV(ParseInt(val).n) ELSE FlagV(ParseInt(val).n))
            ELSE NoValue
      [] OTHER -> Zero(typ)

\* sliceBinder(values, typ): a list of strings coerced to a sequence.
sliceBinder(values, typ) ==
    IF typ = "[]string" THEN StrsV(values) ELSE NoValue

\* reflect.Type.ConvertibleTo, on the types a coercion can yield.
ConvertibleTo(from, to) == from = to

\* What encoding/json matches a field under: its json tag, else its name
\* (matched case-insensitively).
Lower ==
    [ID |-> "id", Name |-> "name", Flag |-> "flag", F |-> "f", G |-> "g",
     Inner |-> "inner", User |-> "user", Pass |-> "pass", Tags |-> "tags",
     Age |-> "age", Bad |-> "bad", Xs |-> "xs", Bad2 |-> "bad2"]
JSONKey(f) == IF f.json # "" THEN f.json ELSE Lower[f.name]

\* json.Unmarshal of the object obj into the struct value v of type t:
\* the fields of an untagged embedded struct are matched as if inline.
RECURSIVE JSONInto(_, _, _)
JSONInto(t, v, obj) ==
    LET One(i) ==
          LET f == Fields(t)[i]
          IN  IF ~f.exported THEN [v |-> v.f[i], err |-> Nil]
              ELSE IF f.anon /\ KindOf(f.type) = "struct" /\ f.json = ""
              THEN JSONInto(f.type, v.f[i], obj)
              ELSE IF JSONKey(f) \notin DOMAIN obj THEN [v |-> v.f[i], err |-> Nil]
              ELSE IF obj[JSONKey(f)].t = f.type THEN [v |-> obj[JSONKey(f)], err |-> Nil]
              ELSE [v |-> v.f[i], err |-> ErrUnmarshal]
        Bad == {i \in 1..NumField(t) : One(i).err # Nil}
    IN  [v |-> StructV(t, [i \in 1..NumField(t) |-> One(i).v]),
         err |-> IF Bad = {} THEN Nil ELSE ErrUnmarshal]

(***************************************************************************)
(* State.                                                                  *)
(***************************************************************************)
VARIABLES
    params,        \* the destination argument of the first call: its kind and target type
    ptrs,          \* its pointer layers, outermost first: TRUE for a non-nil layer
    pre,           \* what the caller held before the first call: [ptrs, dest]
    pathQueryier,  \* the path accessor passed to Bind
    req,           \* the request: [in, bodyRead, PostForm]
    call,          \* call id -> the frame of that Bind invocation
    task,          \* call id -> per field: the wrapper and the bindField goroutine
    dest,          \* call id -> the value the call binds into
    panicked,      \* a goroutine panicked: the process is gone
    stats          \* per top-level call: ParseForm invocations, body decodes

vars == <<params, ptrs, pre, pathQueryier, req, call, task, dest, panicked, stats>>

TopCalls == {<<k>> : k \in 1..MaxCalls}
\* The recursive calls: one per anonymous field of a catalogue type (the
\* catalogue embeds one level deep).
AnonIdx ==
    {i \in UNION {1..NumField(t) : t \in StructTypes} :
        \E t \in StructTypes : i <= NumField(t) /\ Fields(t)[i].anon}
CallIds == TopCalls \cup {<<k, i>> : k \in 1..MaxCalls, i \in AnonIdx}

IdleCall ==
    [pc |-> "idle", typ |-> "", err |-> Nil, ctx |-> FALSE, hasJSONBody |-> FALSE,
     wg |-> 0, n |-> 0, once |-> "idle",
     failed |-> {}, recorded |-> {}, decoded |-> FALSE]

\* The frame of a call at entry (bind.go:42; ctx, once and the flag as set up
\* at bind.go:62-72).
NewCall(t) == [IdleCall EXCEPT !.pc = "enter", !.typ = t]

NewTask ==
    [wpc |-> "none", ipc |-> "none", res |-> Nil, sentErr |-> FALSE,
     errCh |-> << >>, doneCh |-> 0,
     values |-> << >>, parsed |-> [read |-> FALSE, m |-> NoMap, err |-> FALSE]]

\* A destination that is not fresh: every text slot already holds a value.
RECURSIVE Old(_)
Old(t) ==
    CASE t = "string" -> StrV("old")
      [] t = "int" -> IntV(1)
      [] t = "[]string" -> StrsV(<<"old">>)
      [] t = "Flag" -> FlagV(1)
      [] OTHER -> StructV(t, [i \in 1..NumField(t) |-> Old(Fields(t)[i].type)])

TopTypes == (StructTypes \ {"Inner"}) \cup {"int"}

\* Past the dereference loop (bind.go:49-55) nothing depends on how many
\* layers were walked: chains deeper than one layer are tried on a
\* non-struct target and on the record of Bind's doc comment.
DeepTypes == {"int", "Example"}

PtrShapes ==
    {[j \in 1..d |-> j < nilAt] : d \in 1..MaxPtrDepth, nilAt \in 1..(MaxPtrDepth + 1)}

AllSet(p) == \A j \in 1..Len(p) : p[j]

\* The accessor is consulted for path fields alone (bind.go:148-150).
HasPath(t) ==
    \E i \in 1..NumField(t) : getInTagLocAndName(Fields(t)[i])[1] = inTagPath

Init ==
    /\ params \in [kind : {"nonptr", "ptr"}, typ : TopTypes]
    /\ ptrs \in IF params.kind = "nonptr" THEN {<< >>}
                ELSE {p \in PtrShapes : Len(p) > 1 => params.typ \in DeepTypes}
    /\ dest \in {[c \in CallIds |-> IF c = <<1>> THEN v ELSE NoValue] :
                    v \in IF AllSet(ptrs) THEN {Zero(params.typ), Old(params.typ)}
                          ELSE {NoValue}}
    /\ pre = [ptrs |-> ptrs, dest |-> dest[<<1>>]]
    /\ pathQueryier \in IF HasPath(params.typ) THEN PathQueryiers ELSE {"none"}
    /\ req \in {[in |-> r, bodyRead |-> FALSE, PostForm |-> [set |-> FALSE, m |-> NoMap]] :
                    r \in Requests}
    /\ call = [c \in CallIds |-> IF c = <<1>> THEN NewCall(params.typ) ELSE IdleCall]
    /\ task = [c \in CallIds |-> << >>]
    /\ panicked = FALSE
    /\ stats = [k \in 1..MaxCalls |-> [parses |-> 0, parseErrs |-> 0, decodes |-> 0]]

\* The first of several calls in sequence: a fresh zero record behind one
\* pointer.  (Outer is left to Spec: its leaked goroutines, two calls deep,
\* make runs of several calls too many to enumerate.)
InitAgain ==
    /\ Init
    /\ params.kind = "ptr"
    /\ ptrs = <<TRUE>>
    /\ params.typ \in StructTypes \ {"Outer"}
    /\ dest[<<1>>] = Zero(params.typ)

(***************************************************************************)
(* Bind, bind.go:42-96.                                                    *)
(***************************************************************************)
First(c) == c = <<1>>

\* bind.go:43-72: the kind checks and the dereference loop.  Only the first
\* call's argument is chosen by the caller of the model; every other call
\* gets a non-nil pointer to a fresh value.
BindEnter(c) ==
    /\ ~panicked
    /\ call[c].pc = "enter"
    /\ UNCHANGED <<params, pre, pathQueryier, req, stats>>
    /\ IF First(c) /\ params.kind = "nonptr"
       THEN /\ call' = [call EXCEPT ![c].pc = "returned", ![c].err = ErrNonPointer]
            /\ UNCHANGED <<ptrs, task, dest, panicked>>
       ELSE IF First(c) /\ ~ptrs[1]
       THEN \* paramsVal.Set on the unaddressable reflect.ValueOf(params)
            /\ panicked' = TRUE
            /\ UNCHANGED <<ptrs, call, task, dest>>
       ELSE /\ ptrs' = IF First(c) THEN [j \in 1..Len(ptrs) |-> TRUE] ELSE ptrs
            /\ dest' = IF First(c) /\ ~AllSet(ptrs)
                       THEN [dest EXCEPT ![c] = Zero(call[c].typ)]
                       ELSE dest
            /\ panicked' = panicked
            /\ IF KindOf(call[c].typ) # "struct"
               THEN /\ call' = [call EXCEPT ![c].pc = "returned", ![c].err = ErrNonStruct]
                    /\ task' = task
               ELSE /\ call' = [call EXCEPT ![c].pc = "spawn"]
                    /\ task' = [task EXCEPT ![c] =
                                    [i \in 1..NumField(call[c].typ) |-> NewTask]]

\* bind.go:76-87 and 107-114: one iteration of the loop: wg.Add(1) and the
\* go statement; the new goroutine enters bindFieldWithCtx, makes its two
\* channels and starts the bindField goroutine (steps that touch nothing
\* shared), and stands at the select.
BindSpawn(c) ==
    /\ ~panicked
    /\ call[c].pc = "spawn"
    /\ call[c].n < NumField(call[c].typ)
    /\ call' = [call EXCEPT ![c].n = @ + 1, ![c].wg = @ + 1]
    /\ task' = [task EXCEPT ![c][call[c].n + 1].wpc = "select",
                            ![c][call[c].n + 1].ipc = "start"]
    /\ UNCHANGED <<params, ptrs, pre, pathQueryier, req, dest, panicked, stats>>

\* bind.go:89-91: wg.Wait() returns and the overlay condition is evaluated;
\* when it is false Bind returns (95), running the deferred cancel (74).
BindWait(c) ==
    /\ ~panicked
    /\ call[c].pc = "spawn"
    /\ call[c].n = NumField(call[c].typ)
    /\ call[c].wg = 0
    /\ call' = IF req.in.contentLength > 0 /\ call[c].hasJSONBody
               THEN [call EXCEPT ![c].pc = "decode"]
               ELSE [call EXCEPT ![c].pc = "returned", ![c].ctx = TRUE]
    /\ UNCHANGED <<params, ptrs, pre, pathQueryier, req, task, dest, panicked, stats>>

\* json.NewDecoder(body).Decode(params) on the body stream of the request
\* in: at its end when bodyRead.
Decode(v, t, in, bodyRead) ==
    IF bodyRead \/ in.ctype = "none" THEN [v |-> v, err |-> ErrEOF]
    ELSE IF in.ctype # "json" THEN [v |-> v, err |-> ErrSyntax]
    ELSE JSONInto(t, v, in.json)

\* bind.go:92-95: the overlay, then return (and the deferred cancel).
BindDecode(c) ==
    /\ ~panicked
    /\ call[c].pc = "decode"
    /\ LET d == Decode(dest[c], call[c].typ, req.in, req.bodyRead)
       IN  /\ dest' = [dest EXCEPT ![c] = d.v]
           /\ call' = [call EXCEPT ![c].pc = "returned", ![c].ctx = TRUE,
                                   ![c].err = d.err, ![c].decoded = TRUE]
    /\ req' = [req EXCEPT !.bodyRead = TRUE]
    /\ stats' = [stats EXCEPT ![c[1]].decodes = @ + 1]
    /\ UNCHANGED <<params, ptrs, pre, pathQueryier, task, panicked>>

\* The caller binds the same request again, into a fresh zero destination.
BindAgain(k) ==
    /\ ~panicked
    /\ k < MaxCalls
    /\ call[<<k>>].pc = "returned"
    /\ call[<<k + 1>>].pc = "idle"
    /\ params.kind = "ptr"
    /\ KindOf(params.typ) = "struct"
    /\ call' = [call EXCEPT ![<<k + 1>>] = NewCall(params.typ)]
    /\ dest' = [dest EXCEPT ![<<k + 1>>] = Zero(params.typ)]
    /\ UNCHANGED <<params, ptrs, pre, pathQueryier, req, task, panicked, stats>>

(***************************************************************************)
(* The goroutine of bind.go:80-86 and bindFieldWithCtx, bind.go:106-125.   *)
(***************************************************************************)
Tasks == {<<c, i>> \in CallIds \X (UNION {1..NumField(t) : t \in StructTypes}) :
             i <= Len(task[c])}

FieldType(c, i) == Fields(call[c].typ)[i]

\* bind.go:108-109: make(chan error, 1), make(chan struct{}, 1).
ChanCap == 1

\* A send on a channel made without a buffer: it completes only while the
\* wrapper stands at its select to receive.
CanSendUnbuffered(c, i, buffered) == task[c][i].wpc = "select"

\* bind.go:113, 132: a send on errCh or doneCh of the task of field i goes
\* through when the channel's buffer has room.
CanSend(c, i, buffered) == buffered < ChanCap

\* The slot always that of the record's first field (Field(0) for Field(i)).
SlotFirst(c, i) == 1

\* bind.go:77: field := paramsVal.Field(i): the slot of the destination
\* that the task of field i holds and assigns to.
Slot(c, i) == i

\* bind.go:81: the result of bindFieldWithCtx is stored into Bind's named
\* result err, which all the wrappers of the call share.
Store(c, i, res) ==
    /\ call' = [call EXCEPT ![c].err = res,
                            ![c].recorded = IF res = Nil THEN @ ELSE @ \cup {res}]
    /\ UNCHANGED <<params, ptrs, pre, pathQueryier, req, dest, panicked, stats>>

\* bind.go:117-118, 81: case <-e.ctx.Done(): nil is returned and stored.
SelectCtx(c, i) ==
    /\ ~panicked
    /\ task[c][i].wpc = "select"
    /\ call[c].ctx
    /\ task' = [task EXCEPT ![c][i].wpc = "check"]
    /\ Store(c, i, Nil)

\* bind.go:119-120, 81: case err = <-errCh: the error is returned and stored.
SelectErr(c, i) ==
    /\ ~panicked
    /\ task[c][i].wpc = "select"
    /\ Len(task[c][i].errCh) > 0
    /\ task' = [task EXCEPT ![c][i].wpc = "check", ![c][i].errCh = Tail(@),
                            ![c][i].res = Head(task[c][i].errCh)]
    /\ Store(c, i, Head(task[c][i].errCh))

\* bind.go:121-124, 81: case <-doneCh: nil is returned and stored.
SelectDone(c, i) ==
    /\ ~panicked
    /\ task[c][i].wpc = "select"
    /\ task[c][i].doneCh > 0
    /\ task' = [task EXCEPT ![c][i].wpc = "check", ![c][i].doneCh = @ - 1]
    /\ Store(c, i, Nil)

\* bind.go:82-85: err is read back, cancel() if it is not nil, wg.Done().
WrapperExit(c, i) ==
    /\ ~panicked
    /\ task[c][i].wpc = "check"
    /\ call' = [call EXCEPT ![c].ctx = @ \/ call[c].err # Nil, ![c].wg = @ - 1]
    /\ task' = [task EXCEPT ![c][i].wpc = "done"]
    /\ UNCHANGED <<params, ptrs, pre, pathQueryier, req, dest, panicked, stats>>

(***************************************************************************)
(* bindField, bind.go:127-185, run by the goroutine of bind.go:111-114.    *)
(***************************************************************************)
Child(c, i) == Append(c, i)

\* bind.go:128-130: an anonymous field: a fresh value of its type, and the
\* recursive Bind on it is entered.
FieldAnon(c, i) ==
    /\ ~panicked
    /\ task[c][i].ipc = "start"
    /\ FieldType(c, i).anon
    /\ call' = [call EXCEPT ![Child(c, i)] = NewCall(FieldType(c, i).type)]
    /\ dest' = [dest EXCEPT ![Child(c, i)] = Zero(FieldType(c, i).type)]
    /\ task' = [task EXCEPT ![c][i].ipc = "bind"]
    /\ UNCHANGED <<params, ptrs, pre, pathQueryier, req, panicked, stats>>

\* bind.go:130-136: the recursive Bind has returned: its error goes to errCh
\* and bindField returns, or the bound value is stored into the field.
FieldAnonRet(c, i) ==
    /\ ~panicked
    /\ task[c][i].ipc = "bind"
    /\ call[Child(c, i)].pc = "returned"
    /\ UNCHANGED <<params, ptrs, pre, pathQueryier, req, stats>>
    /\ IF call[Child(c, i)].err # Nil
       THEN /\ CanSend(c, i, Len(task[c][i].errCh))
            /\ task' = [task EXCEPT ![c][i].ipc = "senddone",
                                    ![c][i].sentErr = TRUE,
                                    ![c][i].errCh = Append(@, call[Child(c, i)].err)]
            /\ call' = [call EXCEPT ![c].failed = @ \cup {call[Child(c, i)].err}]
            /\ UNCHANGED <<dest, panicked>>
       ELSE IF ~FieldType(c, i).exported
       THEN \* field.Set on a field obtained through an unexported name
            /\ panicked' = TRUE
            /\ UNCHANGED <<call, task, dest>>
       ELSE /\ dest' = [dest EXCEPT ![c].f[Slot(c, i)] = dest[Child(c, i)]]
            /\ task' = [task EXCEPT ![c][i].ipc = "tag"]
            /\ UNCHANGED <<call, panicked>>

\* ParseForm reading the body whether or not PostForm is already there.
ParseFormReadAgain ==
    IF IsFormBody(req.in) /\ ~req.bodyRead
    THEN [read |-> TRUE, m |-> req.in.form, err |-> req.in.ctype = "badform"]
    ELSE [read |-> TRUE, m |-> NoMap, err |-> FALSE]

\* http.Request.ParseForm, first half: PostForm is looked at and, when it is
\* nil and the body is a form, the body stream is read to its end and
\* parsed; err tells whether ParseForm is going to return an error.
ParseFormRead ==
    IF req.PostForm.set THEN [read |-> FALSE, m |-> NoMap, err |-> FALSE]
    ELSE IF IsFormBody(req.in) /\ ~req.bodyRead
    THEN [read |-> TRUE, m |-> req.in.form, err |-> req.in.ctype = "badform"]
    ELSE [read |-> TRUE, m |-> NoMap, err |-> FALSE]

\* bind.go:147-154: the raw values of a field that does not come from the form.
Extract(loc, name) ==
    CASE loc = inTagPath -> <<getValueFromPath(name, pathQueryier)>>
      [] loc = inTagQuery -> Lookup(req.in.query, name)
      [] loc = inTagHeader -> Lookup(req.in.header, name)
      [] OTHER -> << >>

\* bind.go:138-154: a non-empty json tag sets the call's flag; then loc and
\* name of the field and, unless it is a form field, its raw values.
FieldTag(c, i) ==
    /\ ~panicked
    /\ \/ task[c][i].ipc = "tag"
       \/ task[c][i].ipc = "start" /\ ~FieldType(c, i).anon
    /\ call' = [call EXCEPT ![c].hasJSONBody = @ \/ FieldType(c, i).json # ""]
    /\ LET loc == getInTagLocAndName(FieldType(c, i))[1]
           name == getInTagLocAndName(FieldType(c, i))[2]
       IN  task' = IF loc = inTagForm
                   THEN [task EXCEPT ![c][i].ipc = "once"]
                   ELSE [task EXCEPT ![c][i].ipc = "set",
                                     ![c][i].values = Extract(loc, name)]
    /\ UNCHANGED <<params, ptrs, pre, pathQueryier, req, dest, panicked, stats>>

\* bind.go:155-158: e.once.Do: the first goroutine to get here runs
\* ParseForm, one that finds it running waits, one that finds it done goes on.
FieldOnce(c, i) ==
    /\ ~panicked
    /\ task[c][i].ipc = "once"
    /\ call[c].once # "running"
    /\ IF call[c].once = "idle"
       THEN /\ call' = [call EXCEPT ![c].once = "running"]
            /\ task' = [task EXCEPT ![c][i].ipc = "parsing",
                                    ![c][i].parsed = ParseFormRead]
            /\ req' = [req EXCEPT !.bodyRead =
                          @ \/ (~req.PostForm.set /\ IsFormBody(req.in))]
            /\ stats' = [stats EXCEPT ![c[1]].parses = @ + 1,
                                      ![c[1]].parseErrs =
                                          IF ParseFormRead.err THEN @ + 1 ELSE @]
       ELSE /\ task' = [task EXCEPT ![c][i].ipc = "formread"]
            /\ UNCHANGED <<call, req, stats>>
    /\ UNCHANGED <<params, ptrs, pre, pathQueryier, dest, panicked>>

\* ParseForm, second half: r.PostForm is assigned what was parsed (an empty
\* map when nothing was), ParseForm returns (its error is dropped,
\* bind.go:157) and once.Do completes.
ParseFormEnd(c, i) ==
    /\ ~panicked
    /\ task[c][i].ipc = "parsing"
    /\ req' = IF task[c][i].parsed.read
              THEN [req EXCEPT !.PostForm = [set |-> TRUE, m |-> task[c][i].parsed.m]]
              ELSE req
    /\ call' = [call EXCEPT ![c].once = "done"]
    /\ task' = [task EXCEPT ![c][i].ipc = "formread"]
    /\ UNCHANGED <<params, ptrs, pre, pathQueryier, dest, panicked, stats>>

\* bind.go:160: values = e.req.PostForm[name]
FieldFormRead(c, i) ==
    /\ ~panicked
    /\ task[c][i].ipc = "formread"
    /\ task' = [task EXCEPT ![c][i].ipc = "set",
                    ![c][i].values =
                        Lookup(req.PostForm.m, getInTagLocAndName(FieldType(c, i))[2])]
    /\ UNCHANGED <<params, ptrs, pre, pathQueryier, req, call, dest, panicked, stats>>

\* bind.go:163-171: the coercion of the raw values.
Coerce(values, typ) ==
    IF Len(values) = 1 THEN BindValue(values[1], typ) ELSE sliceBinder(values, typ)

\* The assignment with Set in place of AppendSlice for a slice field.
AssignedSet(cur, reflectVal, typ) ==
    IF ConvertibleTo(reflectVal.t, typ) THEN reflectVal ELSE cur

\* bind.go:173-183: the value the field holds after the assignment.
Assigned(cur, reflectVal, typ) ==
    IF ConvertibleTo(reflectVal.t, typ)
    THEN IF reflectVal.t = typ
         THEN (IF KindOf(typ) = "[]string" THEN StrsV(cur.q \o reflectVal.q) ELSE reflectVal)
         ELSE reflectVal
    ELSE cur

\* bind.go:163-185: no values: return; else coerce and assign.
FieldSet(c, i) ==
    /\ ~panicked
    /\ task[c][i].ipc = "set"
    /\ LET values == task[c][i].values
           typ == FieldType(c, i).type
           reflectVal == Coerce(values, typ)
       IN  IF Len(values) = 0 \/ ~ConvertibleTo(reflectVal.t, typ)
           THEN /\ task' = [task EXCEPT ![c][i].ipc = "senddone"]
                /\ UNCHANGED <<dest, panicked>>
           ELSE IF ~FieldType(c, i).exported
           THEN /\ panicked' = TRUE
                /\ UNCHANGED <<task, dest>>
           ELSE /\ dest' = [dest EXCEPT ![c].f[Slot(c, i)] = Assigned(@, reflectVal, typ)]
                /\ task' = [task EXCEPT ![c][i].ipc = "senddone"]
                /\ panicked' = panicked
    /\ UNCHANGED <<params, ptrs, pre, pathQueryier, req, call, stats>>

\* bind.go:113: doneCh <- struct{}{}, and the goroutine ends.
FieldDone(c, i) ==
    /\ ~panicked
    /\ task[c][i].ipc = "senddone"
    /\ CanSend(c, i, task[c][i].doneCh)
    /\ task' = [task EXCEPT ![c][i].ipc = "exit", ![c][i].doneCh = @ + 1]
    /\ UNCHANGED <<params, ptrs, pre, pathQueryier, req, call, dest, panicked, stats>>

NextOne ==
    \/ \E c \in CallIds : BindEnter(c)
    \/ \E c \in CallIds : BindSpawn(c)
    \/ \E c \in CallIds : BindWait(c)
    \/ \E c \in CallIds : BindDecode(c)
    \/ \E x \in Tasks : SelectCtx(x[1], x[2])
    \/ \E x \in Tasks : SelectErr(x[1], x[2])
    \/ \E x \in Tasks : SelectDone(x[1], x[2])
    \/ \E x \in Tasks : WrapperExit(x[1], x[2])
    \/ \E x \in Tasks : FieldAnon(x[1], x[2])
    \/ \E x \in Tasks : FieldAnonRet(x[1], x[2])
    \/ \E x \in Tasks : FieldTag(x[1], x[2])
    \/ \E x \in Tasks : FieldOnce(x[1], x[2])
    \/ \E x \in Tasks : ParseFormEnd(x[1], x[2])
    \/ \E x \in Tasks : FieldFormRead(x[1], x[2])
    \/ \E x \in Tasks : FieldSet(x[1], x[2])
    \/ \E x \in Tasks : FieldDone(x[1], x[2])

NextAgain ==
    \/ NextOne
    \/ \E k \in 1..MaxCalls : BindAgain(k)

\* One Bind call, on any destination argument.
Spec == Init /\ [][NextOne]_vars

\* One Bind call under a fair scheduler: as long as some goroutine can take
\* a step, a step is taken.
SpecFair == Init /\ [][NextOne]_vars /\ WF_vars(NextOne)

\* Bind called again and again on one request, each time on a fresh record.
SpecAgain == InitAgain /\ [][NextAgain]_vars

(***************************************************************************)
(* Properties.                                                             *)
(***************************************************************************)
Returned(c) == call[c].pc = "returned"

\* The call went through the field walk: every field's task was started and
\* wg.Wait() returned.
Walked(c) ==
    /\ call[c].pc \in {"decode", "returned"}
    /\ KindOf(call[c].typ) = "struct"
    /\ Len(task[c]) = NumField(call[c].typ)

\* The record the first call's walk starts from: what the caller held, or
\* the zero record allocated by the dereference loop (bind.go:51).
Before == IF pre.dest = NoValue THEN Zero(params.typ) ELSE pre.dest

HasJSONTag(t) == \E i \in 1..NumField(t) : Fields(t)[i].json # ""

\* C1: when at least one field's binding has failed, Bind returns a non-nil
\* error that is the error of one of the failing fields.
C1_FieldErrorReturned ==
    \A c \in CallIds :
        Returned(c) /\ call[c].failed # {} => call[c].err \in call[c].failed

\* C2: the JSON body decode runs only in calls in which no field's binding
\* failed and no field error was recorded.
C2_DecodeOnlyWithoutFieldError ==
    \A c \in CallIds :
        call[c].pc = "decode" \/ call[c].decoded
            => call[c].failed = {} /\ call[c].recorded = {}

\* C3: in every call that reaches the end of the field walk, the overlay
\* runs if and only if the content length is positive and some declared
\* field of the record has a non-empty json tag.
C3_OverlayIffLengthAndTag ==
    \A c \in CallIds :
        Walked(c) =>
            ((call[c].pc = "decode" \/ call[c].decoded)
                <=> (req.in.contentLength > 0 /\ HasJSONTag(call[c].typ)))

\* C4: during one top-level Bind call ParseForm is invoked at most once,
\* recursive calls for embedded records included.
C4_ParseFormAtMostOnce ==
    \A k \in 1..MaxCalls : stats[k].parses <= 1

\* C5: on a non-pointer, or a pointer chain that ends in a non-struct, Bind
\* returns an invalid-target error and everything reachable from the
\* argument is as before the call, nil pointer layers still nil.
C5_InvalidTargetUnchanged ==
    (params.kind = "nonptr" \/ KindOf(params.typ) # "struct") /\ Returned(<<1>>)
        => /\ call[<<1>>].err \in {ErrNonPointer, ErrNonStruct}
           /\ ptrs = pre.ptrs
           /\ dest[<<1>>] = pre.dest

\* C6: Bind never panics, whatever the destination argument, the tags and
\* the request.
C6_NeverPanics == ~panicked

\* The flags of a pos tag: the directives after the first.
Required(f) == \E j \in 2..Len(f.pos) : f.pos[j] = <<"required">>

\* What the source of a field holds for it in the request.
SourceValues(f) ==
    LET loc == getInTagLocAndName(f)[1]
        name == getInTagLocAndName(f)[2]
    IN  IF loc = inTagForm
        THEN (IF IsFormBody(req.in) THEN Lookup(req.in.form, name) ELSE << >>)
        ELSE Extract(loc, name)

\* C9 (as claimed): with no path accessor a path-tagged field is left
\* unassigned: after the call it holds what it held before.
C9_PathFieldUnassigned ==
    pathQueryier = "none" /\ Walked(<<1>>) /\ Returned(<<1>>) =>
        \A i \in 1..NumField(params.typ) :
            getInTagLocAndName(Fields(params.typ)[i])[1] = inTagPath
                => dest[<<1>>].f[i] = Before.f[i]

\* C9 (amended): with no path accessor the lookup of a path-tagged field
\* yields the empty string as one value, and a text field is assigned it:
\* once its bindField has run the field holds "" whatever it held before
\* (until the overlay, if any, writes the record).
C9_PathFieldSetEmpty ==
    pathQueryier = "none" =>
        \A c \in CallIds : \A i \in 1..Len(task[c]) :
            /\ getInTagLocAndName(FieldType(c, i))[1] = inTagPath
            /\ FieldType(c, i).type = "string"
            /\ task[c][i].ipc \in {"senddone", "exit"}
            /\ ~call[c].decoded
            => dest[c].f[i] = StrV("")

\* A text path field that held "old" has been bound with no accessor.
C9_Witness ==
    /\ pathQueryier = "none"
    /\ params.typ = "Example"
    /\ Returned(<<1>>) /\ ~call[<<1>>].decoded
    /\ pre.dest = Old("Example")
    /\ dest[<<1>>].f[1] = StrV("")

\* C10: a field whose pos tag carries the required flag and whose source
\* yields no value makes Bind return a non-nil error.
C10_RequiredMissingFails ==
    Walked(<<1>>) /\ Returned(<<1>>) =>
        \A i \in 1..NumField(params.typ) :
            Required(Fields(params.typ)[i]) /\ SourceValues(Fields(params.typ)[i]) = << >>
                => call[<<1>>].err # Nil

(***************************************************************************)
(* The record with the embedded records' fields declared inline.           *)
(***************************************************************************)
\* The declared fields of t, those of an anonymous embedded record in place
\* of the embedded field.
RECURSIVE Flatten(_)
Flatten(t) ==
    LET RECURSIVE From(_)
        From(i) ==
            IF i > NumField(t) THEN << >>
            ELSE (IF Fields(t)[i].anon /\ KindOf(Fields(t)[i].type) = "struct"
                  THEN Flatten(Fields(t)[i].type)
                  ELSE <<Fields(t)[i]>>) \o From(i + 1)
    IN  From(1)

\* The values of those fields in the value v of type t.
RECURSIVE FlatValue(_, _)
FlatValue(t, v) ==
    LET RECURSIVE From(_)
        From(i) ==
            IF i > NumField(t) THEN << >>
            ELSE (IF Fields(t)[i].anon /\ KindOf(Fields(t)[i].type) = "struct"
                  THEN FlatValue(Fields(t)[i].type, v.f[i])
                  ELSE <<v.f[i]>>) \o From(i + 1)
    IN  From(1)

HasEmbedded(t) ==
    \E i \in 1..NumField(t) : Fields(t)[i].anon /\ KindOf(Fields(t)[i].type) = "struct"

\* The catalogue type that declares the fields of t inline.
Inline(t) == CHOOSE u \in StructTypes : Fields(u) = Flatten(t)

\* Bind on a record t none of whose fields is anonymous, from the field
\* values v0: with no field able to fail no cancellation is raised, every
\* wrapper waits for its bindField (bind.go:121) and the outcome does not
\* depend on the interleaving: each field is assigned from its source, one
\* ParseForm runs when some field is a form field (bind.go:156), and the
\* overlay runs on the body the form parse has left (bind.go:91-92).
BindInline(t, v0) ==
    LET fs == Fields(t)
        usesForm == \E i \in 1..Len(fs) : getInTagLocAndName(fs[i])[1] = inTagForm
        walked == StructV(t, [i \in 1..Len(fs) |->
                      IF Len(SourceValues(fs[i])) = 0 THEN v0[i]
                      ELSE Assigned(v0[i], Coerce(SourceValues(fs[i]), fs[i].type),
                                    fs[i].type)])
        overlay == req.in.contentLength > 0 /\ HasJSONTag(t)
        d == Decode(walked, t, req.in, usesForm /\ IsFormBody(req.in))
    IN  [dest |-> IF overlay THEN d.v.f ELSE walked.f,
         err |-> IF overlay THEN d.err ELSE Nil,
         overlay |-> overlay,
         parses |-> IF usesForm THEN 1 ELSE 0,
         decodes |-> IF overlay THEN 1 ELSE 0]

\* What the first call has yielded, in the same terms.
Outcome ==
    [dest |-> FlatValue(params.typ, dest[<<1>>]),
     err |-> call[<<1>>].err,
     overlay |-> call[<<1>>].decoded,
     parses |-> stats[1].parses,
     decodes |-> stats[1].decodes]

\* BindInline is what Bind yields on the records that declare no anonymous
\* field.
BindInlineAgrees ==
    /\ Walked(<<1>>) /\ Returned(<<1>>)
    /\ \A i \in 1..NumField(params.typ) : ~Fields(params.typ)[i].anon
    => Outcome = BindInline(params.typ, Before.f)

\* C7: binding a record that has an anonymous embedded record yields what
\* binding the record with the embedded fields declared inline yields: the
\* same field values, overlay decision, form parses, body reads and error.
C7_EmbeddedAsInline ==
    Walked(<<1>>) /\ Returned(<<1>>) /\ HasEmbedded(params.typ)
        => Outcome = BindInline(Inline(params.typ), FlatValue(params.typ, Before))

C11_FormParseErrorReturned ==
    \A k \in 1..MaxCalls :
        Returned(<<k>>) /\ stats[k].parseErrs > 0 => call[<<k>>].err # Nil

\* The record the walk of call c starts from.
Start(c) == IF First(c) THEN Before ELSE Zero(call[c].typ)

\* A non-embedded field whose pos tag is not empty and whose first directive
\* does not split into exactly two tokens at ":".
Malformed(f) == ~f.anon /\ Len(f.pos) > 0 /\ Len(f.pos[1]) # 2

\* C12: a non-embedded field with a malformed pos tag (no colon, or more
\* than one) gets no extracted values: the field walk leaves the field as it
\* was and the field's task sends no error.
C12_MalformedTagSkipped ==
    \A c \in CallIds : \A i \in 1..Len(task[c]) :
        Malformed(FieldType(c, i)) =>
            /\ task[c][i].values = << >>
            /\ ~task[c][i].sentErr
            /\ task[c][i].res = Nil
            /\ ~call[c].decoded => dest[c].f[i] = Start(c).f[i]

\* Both kinds of malformed tag have been walked over, with values for the
\* directive's first two tokens present in the request.
C12_Witness ==
    /\ params.typ = "Odd" /\ req.in = ReqPlain /\ pre.dest = Old("Odd")
    /\ Walked(<<1>>) /\ Returned(<<1>>)
    /\ task[<<1>>][2].ipc = "exit"
    /\ dest[<<1>>].f[2] = StrV("old")

\* C13: a sequence-of-text field tagged query:x, the query holding the two
\* values a and b for x: once the field's bindField has run the field holds
\* what it held before followed by a and b, in that order.
C13_QuerySliceAppended ==
    \A c \in CallIds : \A i \in 1..Len(task[c]) :
        /\ getInTagLocAndName(FieldType(c, i)) = <<inTagQuery, "x">>
        /\ FieldType(c, i).type = "[]string"
        /\ Lookup(req.in.query, "x") = <<"a", "b">>
        /\ task[c][i].ipc \in {"senddone", "exit"}
        /\ ~call[c].decoded
        => dest[c].f[i] = StrsV(Start(c).f[i].q \o <<"a", "b">>)

\* A sequence that held one element has been bound from ?x=a&x=b.
C13_Witness ==
    /\ params.typ = "Odd" /\ req.in = ReqMulti /\ pre.dest = Old("Odd")
    /\ Returned(<<1>>)
    /\ dest[<<1>>].f[1] = StrsV(<<"old", "a", "b">>)

\* The bindField goroutine of field i of call c has nothing left to do on
\* the request, the destination or the flag: at most its send on doneCh.
Finished(c, i) == task[c][i].ipc \in {"senddone", "exit"}

\* C14: the overlay starts only after every per-field task of the call has
\* completed, its bindField goroutine included: none is still running when
\* the decode of the body begins.
C14_OverlayAfterAllTasks ==
    \A c \in CallIds :
        call[c].pc = "decode" => \A i \in 1..Len(task[c]) : Finished(c, i)

\* C15: once the cancellation of a call has been raised (by a failing field,
\* during the walk), no step writes a destination field of that call any
\* more: no bindField goroutine of the call assigns after the cancel.
C15_NoWriteAfterCancel ==
    [][\A c \in CallIds :
           call[c].ctx /\ call[c].pc = "spawn" => dest'[c] = dest[c]]_vars

\* The JSON body of the request supplies a value for the declared field f.
Supplied(f) == ~f.anon /\ f.exported /\ JSONKey(f) \in DOMAIN req.in.json

\* C16: whenever Bind has returned nil after running the overlay, every
\* field the JSON body supplies holds the JSON-decoded value: no assignment
\* of the field walk takes effect after the overlay's write.
C16_OverlayWins ==
    \A c \in CallIds :
        Returned(c) /\ call[c].decoded /\ call[c].err = Nil =>
            \A i \in 1..Len(task[c]) :
                Supplied(FieldType(c, i))
                    => dest[c].f[i] = req.in.json[JSONKey(FieldType(c, i))]

\* C17: the task of field i never changes another field: a step of a
\* bindField goroutine that changes the destination of its call changes the
\* slot of its own field and no other slot.
C17_TaskWritesOwnSlot ==
    [][\A c \in CallIds :
           call'[c].pc = call[c].pc /\ dest'[c] # dest[c] =>
               \E i \in 1..Len(task[c]) :
                   /\ task'[c][i] # task[c][i]
                   /\ \A j \in 1..Len(task[c]) \ {i} :
                          /\ task'[c][j] = task[c][j]
                          /\ dest'[c].f[j] = dest[c].f[j]]_vars

\* Both tasks of a record have assigned, each to its own field.
C17_Witness ==
    /\ params.typ = "Example" /\ req.in = ReqPlain /\ pathQueryier = "gin"
    /\ pre.dest = Old("Example")
    /\ Returned(<<1>>)
    /\ dest[<<1>>].f = <<StrV("42"), StrV("alice")>>

\* C18: every task of a form-tagged field reads the parsed form only after
\* a form parse has completed, and what it reads is the complete result of
\* parsing the body: the values the form body holds for the field's name,
\* in every interleaving, those of a recursive Bind running next to the
\* outer call's form tasks included.
C18_FormReadComplete ==
    \A c \in CallIds : \A i \in 1..Len(task[c]) :
        /\ getInTagLocAndName(FieldType(c, i))[1] = inTagForm
        /\ task[c][i].ipc \in {"set", "senddone", "exit"}
        => /\ req.PostForm.set
           /\ task[c][i].values = SourceValues(FieldType(c, i))

\* C19: with no cancellation raised, bindFieldWithCtx returns the field's
\* error whenever bindField has sent one on errCh: it never returns nil for
\* such a field, whichever of errCh and doneCh is ready first.
C19_SentErrorReturned ==
    \A c \in CallIds : \A i \in 1..Len(task[c]) :
        task[c][i].wpc = "check" /\ ~call[c].ctx /\ task[c][i].sentErr
            => task[c][i].res # Nil

\* The destination argument is a non-nil pointer whose chain ends in a
\* record (inner layers may be nil).
ValidDest ==
    /\ params.kind = "ptr"
    /\ pre.ptrs[1]
    /\ KindOf(params.typ) = "struct"

\* The call has returned and every goroutine it has started, in recursive
\* calls too, has ended.
Terminated ==
    /\ Returned(<<1>>)
    /\ \A c \in CallIds :
           /\ call[c].pc \in {"idle", "returned"}
           /\ \A i \in 1..Len(task[c]) :
                  task[c][i].wpc = "done" /\ task[c][i].ipc = "exit"

\* C20: under fair scheduling a Bind call on a valid destination eventually
\* returns and every goroutine it spawned eventually ends: none stays
\* blocked on a send to errCh or doneCh, also when its wrapper has returned
\* on cancellation or on an error.
C20_EventuallyAllTerminate == ValidDest => <>Terminated

\* All goroutines have ended although a wrapper returned on cancellation
\* and another on an error: the sends nobody received lie in the buffers.
C20_Witness ==
    /\ params.typ = "Broken"
    /\ Walked(<<1>>) /\ Terminated
    /\ task[<<1>>][1].res # Nil /\ task[<<1>>][1].doneCh = 1
    /\ task[<<1>>][2].doneCh = 1

====
